---- MODULE Spec2Model ----
(***************************************************************************)
(* A model of graphwork.py: helper functions that build a graphviz Graph   *)
(* from vertex and edge descriptors and render it to render.png.           *)
(*                                                                         *)
(* Python values are tagged records of one shape, so that any two of them  *)
(* can be compared.  A str used as an identifier is the sequence of its    *)
(* characters (unpacking a str yields its characters); the keys and values *)
(* of an attribute dict are atomic strings; a dict is its set of           *)
(* <<key, value>> pairs.                                                   *)
(***************************************************************************)
EXTENDS Naturals, Sequences, FiniteSets

VARIABLES default_graph_attrs, pc, frame, heap, cur, ret, log, outcome, files, viewer

vars == <<default_graph_attrs, pc, frame, heap, cur, ret, log, outcome, files, viewer>>

(* ------------------------------ bounds -------------------------------- *)

MaxVertices == 2

MaxEdges == 2

(* --------------------------- Python values ---------------------------- *)

PyNone == [tag |-> "none", str |-> <<>>, dict |-> {}, items |-> <<>>]

PyStr(s) == [tag |-> "str", str |-> s, dict |-> {}, items |-> <<>>]

PyDict(d) == [tag |-> "dict", str |-> <<>>, dict |-> d, items |-> <<>>]

PyTuple(xs) == [tag |-> "tuple", str |-> <<>>, dict |-> {}, items |-> xs]

PyList(xs) == [tag |-> "list", str |-> <<>>, dict |-> {}, items |-> xs]

IsStr(v) == v.tag = "str"

IsDict(v) == v.tag = "dict"

Keys(d) == {p[1] : p \in d}

\* dict.update(): the pairs of a win over the pairs of d with the same key
DictUpdate(d, a) == {p \in d : p[1] \notin Keys(a)} \cup a

\* *v in a call: the items of a tuple or list, the characters of a str
Unpack(v) ==
    CASE v.tag \in {"tuple", "list"} -> [ok |-> TRUE, args |-> v.items]
      [] v.tag = "str" ->
            [ok |-> TRUE, args |-> [k \in 1..Len(v.str) |-> PyStr(<<v.str[k]>>)]]
      [] OTHER -> [ok |-> FALSE, args |-> <<>>]

\* what a for loop over v iterates: None is never iterated (guarded by != None)
Iter(v) == IF v.tag = "none" THEN <<>> ELSE Unpack(v).args

(* ------------------------- the graphviz handle ------------------------ *)

\* graphviz.Graph(graph_attr=...): a new, empty graph with its own attribute dict
NewGraph(graph_attrs) == [graph_attr |-> graph_attrs, body |-> <<>>]

Raised(g) == [raised |-> TRUE, graph |-> g]

Ok(g) == [raised |-> FALSE, graph |-> g]

\* graph.node(name, label, **attrs): ** needs a mapping, the name has to be
\* a str and the label a str or None; appends one node statement
GraphNode(g, name, label, attrs) ==
    IF ~IsDict(attrs) \/ ~IsStr(name) \/ ~(IsStr(label) \/ label = PyNone)
    THEN Raised(g)
    ELSE Ok([g EXCEPT !.body = Append(@,
            [kind |-> "node", a |-> name, b |-> label, attrs |-> attrs.dict])])

\* graph.edge(tail, head, **attrs): ** needs a mapping, both end points have
\* to be strs; appends one edge statement
GraphEdge(g, tail, head, attrs) ==
    IF ~IsDict(attrs) \/ ~IsStr(tail) \/ ~IsStr(head)
    THEN Raised(g)
    ELSE Ok([g EXCEPT !.body = Append(@,
            [kind |-> "edge", a |-> tail, b |-> head, attrs |-> attrs.dict])])

(* ------------------------ the module's functions ---------------------- *)

\* mkgraph() that updates default_graph_attrs itself instead of a copy
mkgraph_alias(defaults, attrs) ==
    LET graph_attrs == IF attrs # PyNone THEN DictUpdate(defaults, attrs.dict) ELSE defaults
    IN  [graph |-> NewGraph(graph_attrs), default_graph_attrs |-> graph_attrs, attrs |-> attrs]

\* mkgraph() that sets the caller's attributes with an attribute statement
\* in the body instead of the graph's attribute dict
mkgraph_attr_statement(defaults, attrs) ==
    [graph |-> [graph_attr |-> defaults,
                body |-> IF attrs # PyNone
                         THEN <<[kind |-> "attr", a |-> PyStr(<<"graph">>), b |-> PyNone,
                                 attrs |-> attrs.dict]>>
                         ELSE <<>>],
     default_graph_attrs |-> defaults, attrs |-> attrs]

\* mkgraph() with the update the wrong way round: the defaults win
mkgraph_defaults_win(defaults, attrs) ==
    LET graph_attrs == IF attrs # PyNone THEN DictUpdate(attrs.dict, defaults) ELSE defaults
    IN  [graph |-> NewGraph(graph_attrs), default_graph_attrs |-> defaults, attrs |-> attrs]

\* mkgraph(attrs): the three objects after the call: the new graph, the
\* module's default_graph_attrs and the caller's attrs
mkgraph(defaults, attrs) ==
    LET copy == defaults
        graph_attrs == IF attrs # PyNone THEN DictUpdate(copy, attrs.dict) ELSE copy
    IN  [graph |-> NewGraph(graph_attrs), default_graph_attrs |-> defaults, attrs |-> attrs]

\* mknode(graph, *args): name is required, label and attrs default to None
mknode(g, args) ==
    IF Len(args) \notin 1..3 THEN Raised(g)
    ELSE LET name  == args[1]
             label == IF Len(args) >= 2 THEN args[2] ELSE PyNone
             attrs == IF Len(args) >= 3 THEN args[3] ELSE PyNone
         IN  GraphNode(g, name, label, IF attrs = PyNone THEN PyDict({}) ELSE attrs)

\* mkedge(graph, *args): tail and head are required, attrs defaults to None
mkedge(g, args) ==
    IF Len(args) \notin 2..3 THEN Raised(g)
    ELSE LET tail  == args[1]
             head  == args[2]
             attrs == IF Len(args) >= 3 THEN args[3] ELSE PyNone
         IN  GraphEdge(g, tail, head, IF attrs = PyNone THEN PyDict({}) ELSE attrs)

\* a call of one of the module's two registration functions, by name
Apply(f, g, args) == IF f = "mknode" THEN mknode(g, args) ELSE mkedge(g, args)

\* graph()'s keyword defaults: mkedge=mknode, mknode=mkedge
DefaultMkedge == "mknode"

DefaultMknode == "mkedge"

\* the vertex loop without the except: both calling conventions are tried
\* for every vertex
VertexTry_both(f, g, vertex) ==
    LET first == Apply(f, g, <<vertex>>)
        u == Unpack(vertex)
        second == IF u.ok THEN Apply(f, first.graph, u.args) ELSE Raised(first.graph)
    IN  [raised |-> second.raised, graph |-> second.graph,
         calls |-> <<[unpacked |-> FALSE, args |-> <<vertex>>, raised |-> first.raised],
                     [unpacked |-> TRUE, args |-> u.args, raised |-> second.raised]>>]

\* the try/except of graph()'s vertex loop: mknode(graph, vertex), and only
\* when that raised, mknode(graph, *vertex); calls lists the calls made
VertexTry(f, g, vertex) ==
    LET first == Apply(f, g, <<vertex>>)
        u == Unpack(vertex)
        second == IF u.ok THEN Apply(f, first.graph, u.args) ELSE Raised(first.graph)
    IN  IF ~first.raised
        THEN [raised |-> FALSE, graph |-> first.graph,
              calls |-> <<[unpacked |-> FALSE, args |-> <<vertex>>, raised |-> FALSE]>>]
        ELSE [raised |-> second.raised, graph |-> second.graph,
              calls |-> <<[unpacked |-> FALSE, args |-> <<vertex>>, raised |-> TRUE],
                          [unpacked |-> TRUE, args |-> u.args, raised |-> second.raised]>>]

\* the body of graph()'s edge loop: mkedge(graph, *edge)
EdgeCall(f, g, edge) ==
    LET u == Unpack(edge)
        r == IF u.ok THEN Apply(f, g, u.args) ELSE Raised(g)
    IN  [raised |-> r.raised, graph |-> r.graph,
         calls |-> <<[unpacked |-> TRUE, args |-> u.args, raised |-> r.raised]>>]

\* graph() with the two loops in the other order: edges first
LoopPc_edges_first(fr, phase, i) ==
    IF phase = "vertices" /\ i = 1 /\ fr.edges # PyNone /\ Len(Iter(fr.edges)) >= 1
    THEN [pc |-> "edges", i |-> 1]
    ELSE IF phase = "edges" /\ fr.edges # PyNone /\ i <= Len(Iter(fr.edges))
    THEN [pc |-> "edges", i |-> i]
    ELSE LET j == IF phase = "edges" THEN 1 ELSE i
         IN  IF fr.vertices # PyNone /\ j <= Len(Iter(fr.vertices))
             THEN [pc |-> "vertices", i |-> j]
             ELSE [pc |-> "return", i |-> 0]

\* where graph() continues when the vertex loop (phase "vertices") or the
\* edge loop (phase "edges") is about to take item i
LoopPc(fr, phase, i) ==
    IF phase = "vertices" /\ fr.vertices # PyNone /\ i <= Len(Iter(fr.vertices))
    THEN [pc |-> "vertices", i |-> i]
    ELSE LET j == IF phase = "vertices" THEN 1 ELSE i
         IN  IF fr.edges # PyNone /\ j <= Len(Iter(fr.edges))
             THEN [pc |-> "edges", i |-> j]
             ELSE [pc |-> "return", i |-> 0]

(* ------------------------------ rendering ----------------------------- *)

File(name, format, g) == [name |-> name, format |-> format, graph |-> g]

WriteFile(fs, f) == {x \in fs : x.name # f.name} \cup {f}

RemoveFile(fs, name) == {x \in fs : x.name # name}

\* render() that leaves an existing render.png as it is
render_keeps_old(fs, vw, g, open, engine_ok) ==
    LET saved == WriteFile(fs, File("render", "dot", g))
        old == {x \in fs : x.name = "render.png"}
    IN  IF ~engine_ok
        THEN [raised |-> TRUE, files |-> saved, viewer |-> vw]
        ELSE [raised |-> FALSE,
              files |-> IF old # {} THEN RemoveFile(saved, "render")
                        ELSE RemoveFile(WriteFile(saved, File("render.png", "png", g)), "render"),
              viewer |-> IF open THEN "render.png" ELSE vw]

\* render(graph, open): graph.render("render", format="png", view=open,
\* cleanup=True) saves the source as "render", runs the layout engine, which
\* writes "render.png" or fails, then removes the source and opens the viewer
render(fs, vw, g, open, engine_ok) ==
    LET saved == WriteFile(fs, File("render", "dot", g))
    IN  IF ~engine_ok
        THEN [raised |-> TRUE, files |-> saved, viewer |-> vw]
        ELSE [raised |-> FALSE,
              files |-> RemoveFile(WriteFile(saved, File("render.png", "png", g)), "render"),
              viewer |-> IF open THEN "render.png" ELSE vw]

(* ------------------------------ examples ------------------------------ *)

Digit(d) == <<"0", "1", "2", "3", "4", "5", "6", "7", "8", "9">>[d + 1]

\* str(n) of a natural number: its decimal digits
RECURSIVE IntToStr(_)
IntToStr(n) == IF n < 10 THEN Digit(n) ELSE IntToStr(n \div 10) \o Digit(n % 10)

_gw_example_small_fixed_edges ==
    << <<"T", "S", 22>>, <<"T", "U", 20>>, <<"T", "V", 23>>, <<"S", "U", 18>>,
       <<"U", "V", 19>>, <<"U", "W", 17>>, <<"U", "X", 18>>, <<"V", "W", 16>>,
       <<"W", "X", 18>>, <<"W", "Z", 18>>, <<"X", "Y", 17>>, <<"Z", "Y", 15>> >>

\* (*e[0], {"weight": str(e[1])}) for every e of the example edges
gw_example_small_fixed ==
    PyList([k \in 1..Len(_gw_example_small_fixed_edges) |->
        LET e == _gw_example_small_fixed_edges[k]
        IN  PyTuple(<<PyStr(<<e[1]>>), PyStr(<<e[2]>>),
                      PyDict({<<"weight", IntToStr(e[3])>>})>>)])

\* the vertices of the example session, the str "STUVWXYZ"
ExampleVertices == PyStr(<<"S", "T", "U", "V", "W", "X", "Y", "Z">>)

(* ------------------------- inputs of the calls ------------------------ *)

\* vertex descriptors: a bare identifier of one and of two characters, an
\* (identifier, attributes) pair, an (identifier, label, attributes) triple
VertexDescs ==
    { PyStr(<<"S">>),
      PyStr(<<"U", "V">>),
      PyTuple(<<PyStr(<<"S">>), PyDict({<<"color", "red">>})>>),
      PyTuple(<<PyStr(<<"W">>), PyStr(<<"w">>), PyDict({<<"color", "red">>})>>) }

\* edge descriptors: (tail, head, attrs), (tail, head), and a 1-tuple
EdgeDescs ==
    { PyTuple(<<PyStr(<<"T">>), PyStr(<<"S">>), PyDict({<<"weight", "1">>})>>),
      PyTuple(<<PyStr(<<"S">>), PyStr(<<"U">>)>>),
      PyTuple(<<PyStr(<<"T">>)>>) }

Lists(S, n) == {PyList(xs) : xs \in UNION {[1..k -> S] : k \in 0..n}}

VertexArgs == {PyNone, ExampleVertices} \cup Lists(VertexDescs, MaxVertices)

EdgeArgs == {PyNone, gw_example_small_fixed} \cup Lists(EdgeDescs, MaxEdges)

AttrsArgs == {PyNone, PyDict({<<"rankdir", "UD">>}), PyDict({<<"bgcolor", "red">>})}

\* the registration functions a caller can pass as mkedge= and mknode=:
\* graph()'s defaults, or the module's functions under their own names
ParamArgs ==
    { [mkedge |-> DefaultMkedge, mknode |-> DefaultMknode],
      [mkedge |-> "mkedge", mknode |-> "mknode"] }

\* values of default_graph_attrs: as imported, and as a caller may edit it
DefaultChoices ==
    { {<<"rankdir", "LR">>}, {}, {<<"rankdir", "LR">>, <<"bgcolor", "white">>} }

(* -------------------------------- state ------------------------------- *)

Handles == {"g1", "g2"}

NoHandle == "null"

Free == [live |-> FALSE, obj |-> NewGraph({})]

\* graphviz.Graph(...) constructs a new object: a handle no live graph has
Alloc(h, keep) == CHOOSE x \in Handles : ~h[x].live /\ x # keep

NoFrame ==
    [fn |-> "none", edges |-> PyNone, vertices |-> PyNone, attrs |-> PyNone,
     mkedge |-> DefaultMkedge, mknode |-> DefaultMknode, open |-> FALSE, i |-> 0]

Init ==
    /\ default_graph_attrs = {<<"rankdir", "LR">>}
    /\ pc = "idle"
    /\ frame = NoFrame
    /\ heap = [h \in Handles |-> Free]
    /\ cur = NoHandle
    /\ ret = NoHandle
    /\ log = <<>>
    /\ outcome = "none"
    /\ files = {}
    /\ viewer = "none"

\* the caller's statement has ended: the next one can start
AtPrompt == pc \in {"idle", "done"}

\* a new call starts: the caller keeps the graph with handle keep (or none)
Enter(fr, keep) ==
    /\ frame' = fr
    /\ pc' = "mkgraph"
    /\ ret' = keep
    /\ heap' = [h \in Handles |-> IF h = keep THEN heap[h] ELSE Free]
    /\ cur' = NoHandle
    /\ log' = <<>>
    /\ outcome' = "none"
    /\ UNCHANGED <<default_graph_attrs, files, viewer>>

\* the caller's statement is over and its result dropped
Discard ==
    /\ pc = "done"
    /\ pc' = "idle"
    /\ frame' = NoFrame
    /\ heap' = [h \in Handles |-> Free]
    /\ cur' = NoHandle
    /\ ret' = NoHandle
    /\ log' = <<>>
    /\ outcome' = "none"
    /\ UNCHANGED <<default_graph_attrs, files, viewer>>

\* mkgraph(attrs)
CallMkgraph ==
    /\ pc = "idle"
    /\ \E A \in AttrsArgs : Enter([NoFrame EXCEPT !.fn = "mkgraph", !.attrs = A], NoHandle)

\* graph(edges, vertices, attrs, mkedge=..., mknode=...)
CallGraph ==
    /\ pc = "idle"
    /\ \E E \in EdgeArgs, V \in VertexArgs, A \in AttrsArgs, P \in ParamArgs :
          Enter([fn |-> "graph", edges |-> E, vertices |-> V, attrs |-> A,
                 mkedge |-> P.mkedge, mknode |-> P.mknode, open |-> FALSE, i |-> 0],
                NoHandle)

\* graph() again on the session's edges and vertices with other attrs; the
\* caller still holds the graph the last call returned
CallGraphAgain ==
    /\ AtPrompt
    /\ \E A \in AttrsArgs :
          Enter([frame EXCEPT !.fn = "graph", !.attrs = A, !.i = 0],
                IF outcome = "returned" THEN cur ELSE ret)

\* G(edges, vertices, attrs, open) on the session's edges and vertices;
\* graph() is called with its default mkgraph, mkedge and mknode
CallG ==
    /\ AtPrompt
    /\ \E A \in AttrsArgs, o \in BOOLEAN :
          Enter([frame EXCEPT !.fn = "G", !.attrs = A, !.open = o, !.i = 0,
                              !.mkedge = DefaultMkedge, !.mknode = DefaultMknode],
                NoHandle)

\* the caller edits default_graph_attrs between two calls
EditDefaults ==
    /\ pc = "idle"
    /\ \E d \in DefaultChoices : d # default_graph_attrs /\ default_graph_attrs' = d
    /\ UNCHANGED <<pc, frame, heap, cur, ret, log, outcome, files, viewer>>

\* graph = mkgraph(attrs)
MkgraphStep ==
    /\ pc = "mkgraph"
    /\ LET r == mkgraph(default_graph_attrs, frame.attrs)
           h == Alloc(heap, ret)
           n == LoopPc(frame, "vertices", 1)
       IN  /\ heap' = [heap EXCEPT ![h] = [live |-> TRUE, obj |-> r.graph]]
           /\ cur' = h
           /\ default_graph_attrs' = r.default_graph_attrs
           /\ IF frame.fn = "mkgraph"
              THEN /\ pc' = "done"
                   /\ outcome' = "returned"
                   /\ frame' = [frame EXCEPT !.attrs = r.attrs]
              ELSE /\ pc' = n.pc
                   /\ outcome' = outcome
                   /\ frame' = [frame EXCEPT !.attrs = r.attrs, !.i = n.i]
    /\ UNCHANGED <<ret, log, files, viewer>>

Entries(phase, i, calls) ==
    [k \in 1..Len(calls) |->
        [phase |-> phase, idx |-> i, unpacked |-> calls[k].unpacked,
         args |-> calls[k].args, raised |-> calls[k].raised]]

\* the log holds, for the call in progress, every call graph() has made of
\* its mknode and mkedge parameters: the loop, the item, the arguments
\* after the graph, and whether the call raised
\* one pass of a loop of graph(): r is what the loop body did
LoopStep(phase, r) ==
    /\ heap' = [heap EXCEPT ![cur].obj = r.graph]
    /\ log' = log \o Entries(phase, frame.i, r.calls)
    /\ IF r.raised
       THEN /\ pc' = "done"
            /\ outcome' = "raised"
            /\ frame' = frame
       ELSE LET n == LoopPc(frame, phase, frame.i + 1)
            IN  /\ pc' = n.pc
                /\ outcome' = outcome
                /\ frame' = [frame EXCEPT !.i = n.i]
    /\ UNCHANGED <<default_graph_attrs, cur, ret, files, viewer>>

\* for vertex in vertices: try: mknode(graph, vertex) except: mknode(graph, *vertex)
VertexStep ==
    /\ pc = "vertices"
    /\ LoopStep("vertices",
                VertexTry(frame.mknode, heap[cur].obj, Iter(frame.vertices)[frame.i]))

\* for edge in edges: mkedge(graph, *edge)
EdgeStep ==
    /\ pc = "edges"
    /\ LoopStep("edges",
                EdgeCall(frame.mkedge, heap[cur].obj, Iter(frame.edges)[frame.i]))

\* return graph; in G(), the graph goes on to render()
ReturnStep ==
    /\ pc = "return"
    /\ IF frame.fn = "G"
       THEN pc' = "render" /\ outcome' = outcome
       ELSE pc' = "done" /\ outcome' = "returned"
    /\ UNCHANGED <<default_graph_attrs, frame, heap, cur, ret, log, files, viewer>>

\* render(graph, open=open): the layout engine runs or fails
RenderStep ==
    /\ pc = "render"
    /\ \E engine_ok \in BOOLEAN :
          LET r == render(files, viewer, heap[cur].obj, frame.open, engine_ok)
          IN  /\ files' = r.files
              /\ viewer' = r.viewer
              /\ outcome' = IF r.raised THEN "raised" ELSE "returned"
    /\ pc' = "done"
    /\ UNCHANGED <<default_graph_attrs, frame, heap, cur, ret, log>>

(* --------------------------- specifications --------------------------- *)

\* any sequence of mkgraph() and graph() calls and edits of the defaults
Next ==
    \/ CallMkgraph
    \/ CallGraph
    \/ EditDefaults
    \/ Discard
    \/ MkgraphStep
    \/ VertexStep
    \/ EdgeStep
    \/ ReturnStep

Spec == Init /\ [][Next]_vars

\* a session that calls graph() repeatedly on the same edges and vertices
InitRepeat ==
    /\ default_graph_attrs = {<<"rankdir", "LR">>}
    /\ pc = "idle"
    /\ \E E \in EdgeArgs, V \in VertexArgs, P \in ParamArgs :
          frame = [NoFrame EXCEPT !.edges = E, !.vertices = V,
                                  !.mkedge = P.mkedge, !.mknode = P.mknode]
    /\ heap = [h \in Handles |-> Free]
    /\ cur = NoHandle
    /\ ret = NoHandle
    /\ log = <<>>
    /\ outcome = "none"
    /\ files = {}
    /\ viewer = "none"

NextRepeat ==
    \/ CallGraphAgain
    \/ MkgraphStep
    \/ VertexStep
    \/ EdgeStep
    \/ ReturnStep

SpecRepeat == InitRepeat /\ [][NextRepeat]_vars

\* a session that calls G() repeatedly on the same edges and vertices
InitRender ==
    /\ default_graph_attrs = {<<"rankdir", "LR">>}
    /\ pc = "idle"
    /\ \E E \in EdgeArgs, V \in VertexArgs :
          frame = [NoFrame EXCEPT !.edges = E, !.vertices = V]
    /\ heap = [h \in Handles |-> Free]
    /\ cur = NoHandle
    /\ ret = NoHandle
    /\ log = <<>>
    /\ outcome = "none"
    /\ files = {}
    /\ viewer = "none"

NextRender ==
    \/ CallG
    \/ MkgraphStep
    \/ VertexStep
    \/ EdgeStep
    \/ ReturnStep
    \/ RenderStep

SpecRender == InitRender /\ [][NextRender]_vars

(* ------------------------- reading the state -------------------------- *)

Returned == pc = "done" /\ outcome = "returned"

\* the graph of the call in progress or just ended
TheGraph == heap[cur].obj

DefaultParams == frame.mkedge = DefaultMkedge /\ frame.mknode = DefaultMknode

\* a graph() call with graph()'s own mkedge and mknode has ended
GraphDone == pc = "done" /\ frame.fn = "graph" /\ DefaultParams

\* the nodes of a graph: the identifiers of its node statements and the end
\* points of its edge statements
Nodes(g) ==
    {g.body[k].a : k \in 1..Len(g.body)}
      \cup {g.body[k].b : k \in {n \in 1..Len(g.body) : g.body[n].kind = "edge"}}

EdgeStmts(g) == {k \in 1..Len(g.body) : g.body[k].kind = "edge"}

NodeStmts(g) == {k \in 1..Len(g.body) : g.body[k].kind = "node"}

IsEdgeTriple(e) ==
    /\ e.tag = "tuple" /\ Len(e.items) = 3
    /\ IsStr(e.items[1]) /\ IsStr(e.items[2]) /\ IsDict(e.items[3])

IsEdgePair(e) ==
    e.tag = "tuple" /\ Len(e.items) = 2 /\ IsStr(e.items[1]) /\ IsStr(e.items[2])

IsBareVertex(v) == IsStr(v)

IsVertexPair(v) ==
    v.tag = "tuple" /\ Len(v.items) = 2 /\ IsStr(v.items[1]) /\ IsDict(v.items[2])

IsVertexTriple(v) ==
    /\ v.tag = "tuple" /\ Len(v.items) = 3
    /\ IsStr(v.items[1]) /\ IsStr(v.items[2]) /\ IsDict(v.items[3])

\* the identifier a vertex descriptor names
Ident(v) == IF IsStr(v) THEN v ELSE v.items[1]

Range(f) == {f[k] : k \in DOMAIN f}

(* -------------------------------- claims ------------------------------ *)

\* C1: when graph(edges=E) with graph()'s default mkgraph, mkedge and mknode
\* returns, every (tail, head, attrs) descriptor of E has an edge statement
\* between tail and head that carries attrs.
C1_EdgeRegisteredPerDescriptor ==
    (GraphDone /\ frame.vertices = PyNone /\ frame.edges # PyNone) =>
        /\ outcome = "returned"
        /\ \A e \in Range(Iter(frame.edges)) :
              IsEdgeTriple(e) =>
                 \E k \in EdgeStmts(TheGraph) :
                    TheGraph.body[k] = [kind |-> "edge", a |-> e.items[1],
                                        b |-> e.items[2], attrs |-> e.items[3].dict]

\* C2: graph(edges=E, vertices=V) on bare or (identifier, label, attrs)
\* vertices and (tail, head[, attrs]) edges returns, and every identifier of V
\* and every end point of E is a node of the graph (a node has one identity,
\* however often it is named).
C2_EveryIdentifierIsANode ==
    (/\ GraphDone
     /\ \A v \in Range(Iter(frame.vertices)) : IsBareVertex(v) \/ IsVertexTriple(v)
     /\ \A e \in Range(Iter(frame.edges)) : IsEdgeTriple(e) \/ IsEdgePair(e)) =>
        /\ outcome = "returned"
        /\ \A v \in Range(Iter(frame.vertices)) : Ident(v) \in Nodes(TheGraph)
        /\ \A e \in Range(Iter(frame.edges)) :
              e.items[1] \in Nodes(TheGraph) /\ e.items[2] \in Nodes(TheGraph)

\* C3: graph(vertices=V) with graph()'s default parameters, V holding bare
\* identifiers and (identifier, attributes) pairs, returns without raising and
\* has a node statement for the identifier of every descriptor.
C3_BareAndPairVerticesRegistered ==
    (/\ GraphDone
     /\ frame.edges = PyNone
     /\ frame.vertices # PyNone
     /\ \A v \in Range(Iter(frame.vertices)) : IsBareVertex(v) \/ IsVertexPair(v)) =>
        /\ outcome = "returned"
        /\ \A v \in Range(Iter(frame.vertices)) :
              \E k \in NodeStmts(TheGraph) : TheGraph.body[k].a = Ident(v)

\* C4: the graph attributes of mkgraph(A) and of graph(attrs=A) have exactly
\* the keys of default_graph_attrs and of A, each key once, with A's value
\* for a key of A and the default's value for every other key.
C4_AttrsMergedOverDefaults ==
    (Returned /\ frame.fn \in {"mkgraph", "graph"}) =>
        LET D == default_graph_attrs
            A == IF frame.attrs = PyNone THEN {} ELSE frame.attrs.dict
            ga == TheGraph.graph_attr
        IN  /\ Keys(ga) = Keys(D) \cup Keys(A)
            /\ Cardinality(ga) = Cardinality(Keys(ga))
            /\ \A p \in A : p \in ga
            /\ \A p \in D : p[1] \notin Keys(A) => p \in ga

\* a call that overrides one default key and leaves another has returned
C4_Witness ==
    /\ Returned
    /\ frame.fn = "graph"
    /\ frame.attrs = PyDict({<<"rankdir", "UD">>})
    /\ default_graph_attrs = {<<"rankdir", "LR">>, <<"bgcolor", "white">>}
    /\ TheGraph.graph_attr = {<<"rankdir", "UD">>, <<"bgcolor", "white">>}

\* C5: graph(gw_example_small_fixed(), "STUVWXYZ") with no attrs and the
\* defaults as imported returns a graph with the 8 nodes S..Z, 12 edges and
\* rankdir "LR".
C5_ExampleHasEightNodesTwelveEdges ==
    (/\ GraphDone
     /\ frame.edges = gw_example_small_fixed
     /\ frame.vertices = ExampleVertices
     /\ frame.attrs = PyNone
     /\ default_graph_attrs = {<<"rankdir", "LR">>}) =>
        /\ outcome = "returned"
        /\ Nodes(TheGraph) = Range(Iter(ExampleVertices))
        /\ Cardinality(Nodes(TheGraph)) = 8
        /\ Cardinality(EdgeStmts(TheGraph)) = 12
        /\ <<"rankdir", "LR">> \in TheGraph.graph_attr

\* C6: when G(edges, vertices, attrs, open) has returned, render.png is on
\* disk, in PNG format, and holds the graph built from this call's
\* arguments, and it is the only file; at any time there is at most one
\* image file and its name is render.png.
C6_RenderPngAfterG ==
    /\ (Returned /\ frame.fn = "G") =>
          /\ files = {File("render.png", "png", TheGraph)}
          /\ TheGraph.graph_attr =
                DictUpdate(default_graph_attrs,
                           IF frame.attrs = PyNone THEN {} ELSE frame.attrs.dict)
          /\ Len(TheGraph.body) = Len(Iter(frame.vertices)) + Len(Iter(frame.edges))
    /\ \A f \in files : f.format = "png" => f.name = "render.png"
    /\ Cardinality({f \in files : f.format = "png"}) <= 1

\* a G() call without open has returned after an earlier one opened the
\* viewer: render.png has been written at least twice
C6_Witness ==
    /\ Returned
    /\ frame.fn = "G"
    /\ ~frame.open
    /\ viewer = "render.png"
    /\ frame.attrs = PyDict({<<"rankdir", "UD">>})
    /\ Len(TheGraph.body) >= 2
    /\ files = {File("render.png", "png", TheGraph)}

\* C7: two graph() calls on the same edges and vertices with any two attrs
\* return graphs with the same statements (the same nodes and edges with the
\* same attributes): the graph the caller holds from the earlier call and the
\* graph just returned differ at most in their graph attributes.
C7_AttrsChangeOnlyGraphAttr ==
    (Returned /\ frame.fn = "graph" /\ ret # NoHandle) =>
        heap[ret].obj.body = TheGraph.body

\* the second of two calls with different attrs has returned a graph with
\* vertices and edges
C7_Witness ==
    /\ Returned
    /\ frame.fn = "graph"
    /\ ret # NoHandle
    /\ heap[ret].obj.graph_attr # TheGraph.graph_attr
    /\ frame.vertices # PyNone /\ Len(Iter(frame.vertices)) >= 1
    /\ frame.edges # PyNone /\ Len(Iter(frame.edges)) >= 1
    /\ Len(TheGraph.body) >= 2

IsVertexCall(e, i, unpacked) ==
    e.phase = "vertices" /\ e.idx = i /\ e.unpacked = unpacked

\* C8: for every vertex descriptor v the first call of the mknode parameter
\* has v as its single argument; the unpacked call follows if and only if
\* the first raised; a first call that succeeds is the only one for v and
\* adds one statement; when the unpacked call raises too, graph() ends
\* raised, returns no graph and processes no later descriptor.
C8_VertexFallback ==
    /\ \A k \in 1..Len(log) :
          log[k].phase = "vertices" =>
             LET e == log[k]
                 v == Iter(frame.vertices)[e.idx]
             IN  /\ ~e.unpacked =>
                       /\ e.args = <<v>>
                       /\ k > 1 => ~(log[k - 1].phase = "vertices" /\ log[k - 1].idx = e.idx)
                       /\ e.raised <=> (k < Len(log) /\ IsVertexCall(log[k + 1], e.idx, TRUE))
                 /\ e.unpacked =>
                       /\ k > 1
                       /\ IsVertexCall(log[k - 1], e.idx, FALSE)
                       /\ log[k - 1].raised
                       /\ e.args = Unpack(v).args
                 /\ (e.unpacked /\ e.raised) =>
                       k = Len(log) /\ pc = "done" /\ outcome = "raised"
    /\ cur # NoHandle =>
          Len(TheGraph.body) = Cardinality({k \in 1..Len(log) : ~log[k].raised})

\* a call has ended raised at its second vertex: the first vertex was
\* registered by the first call alone, the second failed both ways
C8_Witness ==
    /\ pc = "done"
    /\ outcome = "raised"
    /\ Len(log) = 3
    /\ IsVertexCall(log[1], 1, FALSE) /\ ~log[1].raised
    /\ IsVertexCall(log[2], 2, FALSE) /\ log[2].raised
    /\ IsVertexCall(log[3], 2, TRUE) /\ log[3].raised
    /\ Len(TheGraph.body) = 1
    /\ frame.edges # PyNone /\ Len(Iter(frame.edges)) >= 1

Succeeded(e) == ~e.raised

\* the descriptors in their input order: vertices 1..n, then edges 1..m
InputOrder(fr) ==
    [k \in 1..Len(Iter(fr.vertices)) |-> <<"vertices", k>>]
      \o [k \in 1..Len(Iter(fr.edges)) |-> <<"edges", k>>]

C9_InOrder ==
    /\ \A k, l \in 1..Len(log) :
          k < l => /\ log[k].phase = "edges" => log[l].phase = "edges"
                   /\ log[k].phase = log[l].phase => log[k].idx <= log[l].idx
    /\ (Returned /\ frame.fn = "graph") =>
          LET done == SelectSeq(log, Succeeded)
          IN  /\ [k \in 1..Len(done) |-> <<done[k].phase, done[k].idx>>] = InputOrder(frame)
              /\ Len(TheGraph.body) = Len(done)
              /\ \A k \in 1..Len(done) : TheGraph.body[k].a = done[k].args[1]

C9_FreshStep ==
    /\ pc = "mkgraph" =>
          /\ cur' # ret
          /\ ~heap[cur'].live
          /\ heap'[cur'].live
          /\ heap'[cur'].obj.body = <<>>
    /\ (ret # NoHandle /\ ret' = ret) => heap'[ret] = heap[ret]

\* C9: every graph() call makes a new, empty graph that is not the graph of
\* an earlier call (the graph the caller still holds is never changed), and
\* registers the vertex descriptors in input order, then the edge
\* descriptors in input order: the statements of the returned graph follow
\* the vertices sequence and then the edges sequence.
C9_FreshGraphInInputOrder == []C9_InOrder /\ [][C9_FreshStep]_vars

\* a call on two vertices and two edges has returned while the caller holds
\* the graph of the call before
C9_Witness ==
    /\ Returned
    /\ frame.fn = "graph"
    /\ ret # NoHandle
    /\ cur # ret
    /\ frame.vertices # PyNone /\ Len(Iter(frame.vertices)) = 2
    /\ frame.edges # PyNone /\ Len(Iter(frame.edges)) = 2
    /\ Len(TheGraph.body) = 4
    /\ Len(heap[ret].obj.body) = 4

C10_CallStep ==
    /\ ~(pc = "idle" /\ pc' = "idle") => default_graph_attrs' = default_graph_attrs
    /\ pc \notin {"idle", "done"} => frame'.attrs = frame.attrs

C10_NoneGivesDefaults ==
    (Returned /\ frame.fn \in {"mkgraph", "graph"} /\ frame.attrs = PyNone) =>
        TheGraph.graph_attr = default_graph_attrs

\* C10: no step of a mkgraph() or graph() call changes default_graph_attrs
\* or the attrs mapping the caller passed, and a call with attrs=None
\* returns a graph whose attributes are exactly default_graph_attrs.
C10_DefaultsNeverModified == [][C10_CallStep]_vars /\ []C10_NoneGivesDefaults

\* after an edit of the defaults and a call that overrides rankdir, the
\* defaults are as edited
C10_Witness ==
    /\ Returned
    /\ frame.fn = "graph"
    /\ frame.attrs = PyDict({<<"rankdir", "UD">>})
    /\ default_graph_attrs = {<<"rankdir", "LR">>, <<"bgcolor", "white">>}
    /\ <<"rankdir", "UD">> \in TheGraph.graph_attr
    /\ Len(TheGraph.body) >= 1

====
